---- MODULE Spec2Model ----
(***************************************************************************)
(* A model of @hootla/llm-workspace: the path guard, the file and editor   *)
(* tools, the provider adapters with their strict-schema transform, the    *)
(* stateful shell, the network tools and init/destroy.  Strings are        *)
(* sequences of one-character strings, paths are handled as Node's posix   *)
(* path module handles them.                                               *)
(***************************************************************************)
EXTENDS Integers, Sequences, FiniteSets, TLC

VARIABLES
  root,      \* PathGuard.rootDir: the resolved Root, a sequence of segments
  pc,        \* "idle": no handler running; "done": a handler has returned
  call,      \* the last call: its tool and arguments
  ret,       \* what the last call returned or threw
  fsLog,     \* the (operation, path) pairs the last call handed to node:fs
  fs,        \* the filesystem: absolute path -> directory or file with content
  fsBefore,  \* the filesystem as it was when the last call started
  toolSchema,    \* the JSON Schema zodToJsonSchema yields for the tool's input schema
  hostEnv,   \* process.env of the host process
  envRef,    \* per Workspace: the object its envVars field refers to (0: not constructed)
  heap,      \* the environment objects: object -> its own properties
  setByTool, \* per Workspace: the value set_env_var was last asked to give each key
  allowedDomains, \* the allow-list createNetworkTools closed over, or undefined
  netLog,    \* the requests the last call handed to fetch
  cwd,       \* process.cwd(), against which the OS resolves a relative path
  rootDirOption, \* options.rootDir as the Workspace was given it, a string
  inflight,  \* per handler in flight: its tool, arguments, position and buffer
  raceLog    \* the writes of the handlers in flight, in the order they executed

fsVars == <<fsLog, fs, fsBefore>>
shellVars == <<hostEnv, envRef, heap, setByTool>>
netVars == <<allowedDomains, netLog>>
lifeVars == <<cwd, rootDirOption>>
raceVars == <<inflight, raceLog>>
vars == <<root, pc, call, ret, fsVars, toolSchema, shellVars, netVars, lifeVars, raceVars>>

(***************************************************************************)
(* Bounds of the model.                                                    *)
(***************************************************************************)
MaxPathLen == 5
MaxFileLen == 2
MaxEditLen == 5
MaxOldLen == 2
MaxNewLen == 1
MaxExitCode == 2

(***************************************************************************)
(* Strings.                                                                *)
(***************************************************************************)
RECURSIVE StringsUpTo(_, _)
StringsUpTo(alphabet, n) ==
  IF n = 0 THEN {<<>>}
  ELSE LET shorter == StringsUpTo(alphabet, n - 1)
       IN  shorter \cup {Append(s, c) : s \in {t \in shorter : Len(t) = n - 1}, c \in alphabet}

\* String.prototype.startsWith
StartsWith(s, prefix) ==
  /\ Len(s) >= Len(prefix)
  /\ SubSeq(s, 1, Len(prefix)) = prefix

\* String.prototype.split('/'): the pieces between separators, empty ones kept
RECURSIVE SplitFrom(_, _, _)
SplitFrom(s, i, cur) ==
  IF i > Len(s) THEN <<cur>>
  ELSE IF s[i] = "/" THEN <<cur>> \o SplitFrom(s, i + 1, <<>>)
  ELSE SplitFrom(s, i + 1, Append(cur, s[i]))

Split(s) == SplitFrom(s, 1, <<>>)

\* Array.prototype.join('/')
RECURSIVE Join(_)
Join(segs) ==
  IF segs = <<>> THEN <<>>
  ELSE IF Len(segs) = 1 THEN segs[1]
  ELSE segs[1] \o <<"/">> \o Join(Tail(segs))

\* the 0-based positions at which sub occurs in s (every position for "")
Occurrences(s, sub) ==
  {i \in 0..(Len(s) - Len(sub)) : SubSeq(s, i + 1, i + Len(sub)) = sub}

\* String.prototype.indexOf / lastIndexOf: -1 when sub does not occur
indexOf(s, sub) ==
  IF Occurrences(s, sub) = {} THEN -1
  ELSE CHOOSE i \in Occurrences(s, sub) : \A j \in Occurrences(s, sub) : i <= j

lastIndexOf(s, sub) ==
  IF Occurrences(s, sub) = {} THEN -1
  ELSE CHOOSE i \in Occurrences(s, sub) : \A j \in Occurrences(s, sub) : i >= j

\* String.prototype.includes
includes(s, sub) == Occurrences(s, sub) /= {}

\* s.replace(/pat/g, rep) for a literal, non-empty pat: every occurrence, left
\* to right, without rescanning the replacement
RECURSIVE ReplaceAll(_, _, _)
ReplaceAll(s, pat, rep) ==
  IF Len(s) < Len(pat) THEN s
  ELSE IF SubSeq(s, 1, Len(pat)) = pat
    THEN rep \o ReplaceAll(SubSeq(s, Len(pat) + 1, Len(s)), pat, rep)
  ELSE <<Head(s)>> \o ReplaceAll(Tail(s), pat, rep)

\* GetSubstitution of ECMAScript for a string pattern (no captures): in the
\* replacement "$$" is "$", "$&" the match, "$" and a backtick ("BT") the text
\* before the match, "$" and a single quote ("SQ") the text after it; any
\* other character is itself
RECURSIVE GetSubstitution(_, _, _, _)
GetSubstitution(matched, str, position, replacement) ==
  IF replacement = <<>> THEN <<>>
  ELSE IF Len(replacement) >= 2 /\ replacement[1] = "$"
          /\ replacement[2] \in {"$", "&", "BT", "SQ"}
    THEN LET rest == GetSubstitution(matched, str, position,
                                     SubSeq(replacement, 3, Len(replacement)))
         IN  CASE replacement[2] = "$" -> <<"$">> \o rest
               [] replacement[2] = "&" -> matched \o rest
               [] replacement[2] = "BT" -> SubSeq(str, 1, position) \o rest
               [] OTHER -> SubSeq(str, position + Len(matched) + 1, Len(str)) \o rest
  ELSE <<Head(replacement)>>
         \o GetSubstitution(matched, str, position, Tail(replacement))

\* String.prototype.replace(searchString, replaceString): the first occurrence
StringReplace(s, search, replacement) ==
  LET pos == indexOf(s, search)
  IN  IF pos = -1 THEN s
      ELSE SubSeq(s, 1, pos)
             \o GetSubstitution(search, s, pos, replacement)
             \o SubSeq(s, pos + Len(search) + 1, Len(s))

CRLF == <<"CR", "LF">>
LF == <<"LF">>

\* content.split(/\r?\n/)
RECURSIVE SplitLinesFrom(_, _, _)
SplitLinesFrom(s, i, cur) ==
  IF i > Len(s) THEN <<cur>>
  ELSE IF s[i] = "LF" THEN <<cur>> \o SplitLinesFrom(s, i + 1, <<>>)
  ELSE IF s[i] = "CR" /\ i < Len(s) /\ s[i + 1] = "LF"
    THEN <<cur>> \o SplitLinesFrom(s, i + 2, <<>>)
  ELSE SplitLinesFrom(s, i + 1, Append(cur, s[i]))

SplitLines(s) == SplitLinesFrom(s, 1, <<>>)

DotDot == <<".", ".">>
Dot == <<".">>

(***************************************************************************)
(* node:path (posix).  An absolute normalized path is the sequence of its  *)
(* segments: <<>> is "/".                                                  *)
(***************************************************************************)
\* normalizeString with allowAboveRoot = false: "" and "." are dropped, ".."
\* pops the last segment and is dropped at the filesystem root
RECURSIVE NormalizeFrom(_, _)
NormalizeFrom(acc, segs) ==
  IF segs = <<>> THEN acc
  ELSE LET s == Head(segs)
       IN  IF s = <<>> \/ s = Dot THEN NormalizeFrom(acc, Tail(segs))
           ELSE IF s = DotDot
             THEN NormalizeFrom(IF acc = <<>> THEN acc ELSE SubSeq(acc, 1, Len(acc) - 1),
                                Tail(segs))
           ELSE NormalizeFrom(Append(acc, s), Tail(segs))

\* path.isAbsolute
isAbsolute(p) == p /= <<>> /\ Head(p) = "/"

\* path.resolve(rootDir, targetPath) with rootDir absolute and normalized: an
\* absolute target replaces the root, a relative one (the empty string
\* included) is appended to it; the result is normalized
PathResolve(rootDir, targetPath) ==
  IF isAbsolute(targetPath) THEN NormalizeFrom(<<>>, Split(targetPath))
  ELSE NormalizeFrom(rootDir, Split(targetPath))

\* length of the longest common prefix of two segment sequences
RECURSIVE CommonLen(_, _)
CommonLen(a, b) ==
  IF a = <<>> \/ b = <<>> \/ Head(a) /= Head(b) THEN 0
  ELSE 1 + CommonLen(Tail(a), Tail(b))

\* path.relative(from, to) of two absolute normalized paths, as a string: one
\* ".." per segment of from below the common ancestor, then the rest of to
PathRelative(from, to) ==
  LET n == CommonLen(from, to)
      ups == [i \in 1..(Len(from) - n) |-> DotDot]
  IN  Join(ups \o SubSeq(to, n + 1, Len(to)))

\* path.dirname of an absolute normalized path: dirname("/") is "/"
PathDirname(p) == IF p = <<>> THEN <<>> ELSE SubSeq(p, 1, Len(p) - 1)

(***************************************************************************)
(* PathGuard.                                                              *)
(***************************************************************************)
\* PathGuard.validatePath: the resolved path, or the thrown Security Violation
validatePath(rootDir, targetPath) ==
  LET resolvedPath == PathResolve(rootDir, targetPath)
      relative == PathRelative(rootDir, resolvedPath)
      isSafe == \/ relative = <<>>
                \/ (~StartsWith(relative, DotDot) /\ ~isAbsolute(relative))
  IN  IF isSafe THEN [ok |-> TRUE, path |-> resolvedPath, error |-> "none"]
      ELSE [ok |-> FALSE, path |-> <<>>, error |-> "SecurityViolation"]

\* the resolved path is Root or lies beneath it: Root's segments are a prefix
IsRootOrBeneath(rootDir, p) ==
  /\ Len(p) >= Len(rootDir)
  /\ SubSeq(p, 1, Len(rootDir)) = rootDir

(***************************************************************************)
(* node:fs.  The filesystem maps each existing absolute path to its node;  *)
(* "/" always exists.                                                      *)
(***************************************************************************)
DirNode == [kind |-> "dir", content |-> <<>>]
FileNode(c) == [kind |-> "file", content |-> c]
RootOnlyFs == (<<>> :> DirNode)

IsDir(f, p) == p \in DOMAIN f /\ f[p].kind = "dir"
IsFile(f, p) == p \in DOMAIN f /\ f[p].kind = "file"
Ancestors(p) == {SubSeq(p, 1, i) : i \in 0..Len(p)}

\* fs.mkdir(p, {recursive: true}): fails when p or an ancestor is a file
MkdirOk(f, p) == \A q \in Ancestors(p) : q \notin DOMAIN f \/ f[q].kind = "dir"
Mkdir(f, p) == [q \in DOMAIN f \cup Ancestors(p) |-> IF q \in DOMAIN f THEN f[q] ELSE DirNode]

\* fs.writeFile / fs.appendFile: the parent must be a directory, the path not one
WriteOk(f, p) == p /= <<>> /\ IsDir(f, PathDirname(p)) /\ ~IsDir(f, p)
WriteFileFs(f, p, c) == [q \in DOMAIN f \cup {p} |-> IF q = p THEN FileNode(c) ELSE f[q]]
AppendFileFs(f, p, c) ==
  WriteFileFs(f, p, (IF IsFile(f, p) THEN f[p].content ELSE <<>>) \o c)

\* fs.unlink
Unlink(f, p) == [q \in DOMAIN f \ {p} |-> f[q]]

\* the entries fs.readdir lists: the children of a directory
Children(f, d) == {q \in DOMAIN f : Len(q) = Len(d) + 1 /\ SubSeq(q, 1, Len(d)) = d}

FsOp(op, p) == [op |-> op, path |-> p]

(***************************************************************************)
(* utils/binary.ts                                                         *)
(***************************************************************************)
SampleSize == 1024

\* a classifier that scans the whole file instead of the sample
isBinaryFileWholeFile(f, p) ==
  /\ IsFile(f, p)
  /\ \E i \in 1..Len(f[p].content) : f[p].content[i] = "NUL"

\* a classifier that never finds anything binary
isBinaryFileNever(f, p) == FALSE

\* isBinaryFile: a NUL among the first 1024 bytes; a path that cannot be
\* opened or read (absent, a directory) classifies as text
isBinaryFile(f, p) ==
  /\ IsFile(f, p)
  /\ LET bytesRead == IF Len(f[p].content) < SampleSize THEN Len(f[p].content) ELSE SampleSize
     IN  \E i \in 1..bytesRead : f[p].content[i] = "NUL"

(***************************************************************************)
(* The path guard on its own: validatePath applied to every candidate.     *)
(***************************************************************************)
PathChars == {"/", ".", "a"}
PathStrings == StringsUpTo(PathChars, MaxPathLen)
Roots == {<<>>, <<<<"a">>>>, <<<<"a">>, <<"a", "a">>>>}

\* the parts of the state a specification does not exercise
NoSchemaState == toolSchema = <<>>
NoShellState ==
  /\ hostEnv = <<>>
  /\ envRef = <<>>
  /\ heap = <<>>
  /\ setByTool = <<>>
NoLifeState ==
  /\ cwd = <<>>
  /\ rootDirOption = <<>>
NoRaceState ==
  /\ inflight = <<>>
  /\ raceLog = <<>>
NoNetState ==
  /\ allowedDomains = <<>>
  /\ netLog = <<>>
NoFsState ==
  /\ fsLog = {}
  /\ fs = RootOnlyFs
  /\ fsBefore = RootOnlyFs

NoCall == [tool |-> "none", path |-> <<>>]
NoRet == [ok |-> TRUE, path |-> <<>>, error |-> "none"]

InitPath ==
  /\ root \in Roots
  /\ pc = "idle"
  /\ call = NoCall
  /\ ret = NoRet
  /\ NoFsState
  /\ NoSchemaState
  /\ NoShellState
  /\ NoNetState
  /\ NoLifeState
  /\ NoRaceState

ValidatePath(p) ==
  /\ pc = "idle"
  /\ pc' = "done"
  /\ call' = [tool |-> "validatePath", path |-> p]
  /\ ret' = validatePath(root, p)
  /\ UNCHANGED <<root, fsVars, toolSchema, shellVars, netVars, lifeVars, raceVars>>

\* the caller takes the result; the next call may start
Return ==
  /\ pc = "done"
  /\ pc' = "idle"
  /\ call' = NoCall
  /\ ret' = NoRet
  /\ fsLog' = {}
  /\ fsBefore' = fs
  /\ netLog' = <<>>
  /\ UNCHANGED <<root, fs, toolSchema, shellVars, allowedDomains, lifeVars, raceVars>>

NextPath ==
  \/ \E p \in PathStrings : ValidatePath(p)
  \/ Return

SpecPath == InitPath /\ [][NextPath]_vars

\* C1: validatePath(p) succeeds iff p resolved against Root is Root or a strict
\* descendant of Root, and on success returns exactly that resolved path; a
\* descendant whose first segment merely begins with two dots is accepted.
C1_ValidateIffWithinRoot ==
  (pc = "done" /\ call.tool = "validatePath") =>
    LET abs == PathResolve(root, call.path)
    IN  /\ ret.ok <=> IsRootOrBeneath(root, abs)
        /\ ret.ok => ret.path = abs

(***************************************************************************)
(* tools/editor.ts: the edit of replace_in_file on a file's content.       *)
(***************************************************************************)
\* replaceContent without the lastIndexOf test: the first match is edited
replaceContentFirstMatch(content, old_content, new_content) ==
  LET isCRLF == includes(content, CRLF)
      fileNormalized == ReplaceAll(content, CRLF, LF)
      searchNormalized == ReplaceAll(old_content, CRLF, LF)
      firstIndex == indexOf(fileNormalized, searchNormalized)
      newContentNormalized == ReplaceAll(new_content, CRLF, LF)
      updatedNormalized == StringReplace(fileNormalized, searchNormalized, newContentNormalized)
      finalContent == IF isCRLF THEN ReplaceAll(updatedNormalized, LF, CRLF)
                      ELSE updatedNormalized
  IN  IF firstIndex = -1 THEN [status |-> "NotFound", final |-> content]
      ELSE [status |-> "ok", final |-> finalContent]

\* lines 34-56 of replace_in_file: the search in normalized space, the
\* replacement, the restored line endings
replaceContent(content, old_content, new_content) ==
  LET isCRLF == includes(content, CRLF)
      fileNormalized == ReplaceAll(content, CRLF, LF)
      searchNormalized == ReplaceAll(old_content, CRLF, LF)
      firstIndex == indexOf(fileNormalized, searchNormalized)
      lastIndex == lastIndexOf(fileNormalized, searchNormalized)
      newContentNormalized == ReplaceAll(new_content, CRLF, LF)
      updatedNormalized == StringReplace(fileNormalized, searchNormalized, newContentNormalized)
      finalContent == IF isCRLF THEN ReplaceAll(updatedNormalized, LF, CRLF)
                      ELSE updatedNormalized
  IN  IF firstIndex = -1 THEN [status |-> "NotFound", final |-> content]
      ELSE IF firstIndex /= lastIndex THEN [status |-> "Ambiguous", final |-> content]
      ELSE [status |-> "ok", final |-> finalContent]

(***************************************************************************)
(* tools/fs.ts and tools/editor.ts: the handlers.  Each is one action: the *)
(* containment check, then the node:fs calls in the order of the code.     *)
(***************************************************************************)
Thrown(e) == [ok |-> FALSE, error |-> e, value |-> <<>>]
Returned(v) == [ok |-> TRUE, error |-> "none", value |-> v]
Called(tool, p, args) == [tool |-> tool, path |-> p, args |-> args]

\* what a handler leaves behind: its result, the fs calls it made, the filesystem
Outcome(r, log, f) ==
  /\ ret' = r
  /\ fsLog' = log
  /\ fs' = f
  /\ fsBefore' = fs

read_file(p) ==
  /\ pc = "idle"
  /\ pc' = "done"
  /\ call' = Called("read_file", p, <<>>)
  /\ UNCHANGED <<root, toolSchema, shellVars, netVars, lifeVars, raceVars>>
  /\ LET v == validatePath(root, p)
         safePath == v.path
     IN  IF ~v.ok THEN Outcome(Thrown(v.error), {}, fs)
         ELSE IF isBinaryFile(fs, safePath)
           THEN Outcome(Thrown("BinaryBlocked"), {FsOp("open", safePath)}, fs)
         ELSE IF IsFile(fs, safePath)
           THEN Outcome(Returned(fs[safePath].content),
                        {FsOp("open", safePath), FsOp("readFile", safePath)}, fs)
         ELSE Outcome(Thrown(IF safePath \in DOMAIN fs \/ ~MkdirOk(fs, safePath)
                             THEN "FailedToRead" ELSE "FileNotFound"),
                      {FsOp("open", safePath), FsOp("readFile", safePath)}, fs)

\* a write_file that creates the parent directories before the containment check
write_fileMkdirFirst(p, content) ==
  /\ pc = "idle"
  /\ pc' = "done"
  /\ call' = Called("write_file", p, <<content>>)
  /\ UNCHANGED <<root, toolSchema, shellVars, netVars, lifeVars, raceVars>>
  /\ LET v == validatePath(root, p)
         resolvedPath == PathResolve(root, p)
         dir == PathDirname(resolvedPath)
     IN  IF ~MkdirOk(fs, dir)
           THEN Outcome(Thrown("FailedToWrite"), {FsOp("mkdir", dir)}, fs)
         ELSE IF ~v.ok THEN Outcome(Thrown(v.error), {FsOp("mkdir", dir)}, Mkdir(fs, dir))
         ELSE IF ~WriteOk(Mkdir(fs, dir), resolvedPath)
           THEN Outcome(Thrown("FailedToWrite"),
                        {FsOp("mkdir", dir), FsOp("writeFile", resolvedPath)}, Mkdir(fs, dir))
         ELSE Outcome(Returned(<<>>), {FsOp("mkdir", dir), FsOp("writeFile", resolvedPath)},
                      WriteFileFs(Mkdir(fs, dir), resolvedPath, content))

write_file(p, content) ==
  /\ pc = "idle"
  /\ pc' = "done"
  /\ call' = Called("write_file", p, <<content>>)
  /\ UNCHANGED <<root, toolSchema, shellVars, netVars, lifeVars, raceVars>>
  /\ LET v == validatePath(root, p)
         safePath == v.path
         dir == PathDirname(safePath)
     IN  IF ~v.ok THEN Outcome(Thrown(v.error), {}, fs)
         ELSE IF ~MkdirOk(fs, dir)
           THEN Outcome(Thrown("FailedToWrite"), {FsOp("mkdir", dir)}, fs)
         ELSE IF ~WriteOk(Mkdir(fs, dir), safePath)
           THEN Outcome(Thrown("FailedToWrite"),
                        {FsOp("mkdir", dir), FsOp("writeFile", safePath)}, Mkdir(fs, dir))
         ELSE Outcome(Returned(<<>>), {FsOp("mkdir", dir), FsOp("writeFile", safePath)},
                      WriteFileFs(Mkdir(fs, dir), safePath, content))

append_file(p, content) ==
  /\ pc = "idle"
  /\ pc' = "done"
  /\ call' = Called("append_file", p, <<content>>)
  /\ UNCHANGED <<root, toolSchema, shellVars, netVars, lifeVars, raceVars>>
  /\ LET v == validatePath(root, p)
         safePath == v.path
         dir == PathDirname(safePath)
         opened == {FsOp("open", safePath)}
     IN  IF ~v.ok THEN Outcome(Thrown(v.error), {}, fs)
         ELSE IF isBinaryFile(fs, safePath)
           THEN Outcome(Thrown("BinaryBlocked"), opened, fs)
         ELSE IF ~MkdirOk(fs, dir)
           THEN Outcome(Thrown("FailedToAppend"), opened \cup {FsOp("mkdir", dir)}, fs)
         ELSE IF ~WriteOk(Mkdir(fs, dir), safePath)
           THEN Outcome(Thrown("FailedToAppend"),
                        opened \cup {FsOp("mkdir", dir), FsOp("appendFile", safePath)},
                        Mkdir(fs, dir))
         ELSE Outcome(Returned(<<>>),
                      opened \cup {FsOp("mkdir", dir), FsOp("appendFile", safePath)},
                      AppendFileFs(Mkdir(fs, dir), safePath, content))

delete_file(p) ==
  /\ pc = "idle"
  /\ pc' = "done"
  /\ call' = Called("delete_file", p, <<>>)
  /\ UNCHANGED <<root, toolSchema, shellVars, netVars, lifeVars, raceVars>>
  /\ LET v == validatePath(root, p)
         safePath == v.path
     IN  IF ~v.ok THEN Outcome(Thrown(v.error), {}, fs)
         ELSE IF IsFile(fs, safePath)
           THEN Outcome(Returned(<<"deleted">>), {FsOp("unlink", safePath)},
                        Unlink(fs, safePath))
         ELSE IF safePath \notin DOMAIN fs /\ MkdirOk(fs, safePath)
           THEN Outcome(Returned(<<"did not exist">>), {FsOp("unlink", safePath)}, fs)
         ELSE Outcome(Thrown("FailedToDelete"), {FsOp("unlink", safePath)}, fs)

list_files(p) ==
  /\ pc = "idle"
  /\ pc' = "done"
  /\ call' = Called("list_files", p, <<>>)
  /\ UNCHANGED <<root, toolSchema, shellVars, netVars, lifeVars, raceVars>>
  /\ LET v == validatePath(root, p)
         safePath == v.path
     IN  IF ~v.ok THEN Outcome(Thrown(v.error), {}, fs)
         ELSE IF IsDir(fs, safePath)
           THEN Outcome(Returned({[name |-> q[Len(q)],
                                   type |-> IF IsDir(fs, q) THEN "directory" ELSE "file"]
                                  : q \in Children(fs, safePath)}),
                        {FsOp("readdir", safePath)}, fs)
         ELSE Outcome(Thrown("FailedToList"), {FsOp("readdir", safePath)}, fs)

stat_file(p) ==
  /\ pc = "idle"
  /\ pc' = "done"
  /\ call' = Called("stat_file", p, <<>>)
  /\ UNCHANGED <<root, toolSchema, shellVars, netVars, lifeVars, raceVars>>
  /\ LET v == validatePath(root, p)
         safePath == v.path
     IN  IF ~v.ok THEN Outcome(Thrown(v.error), {}, fs)
         ELSE IF safePath \in DOMAIN fs
           THEN Outcome(Returned([size |-> Len(fs[safePath].content),
                                  isDirectory |-> IsDir(fs, safePath),
                                  isFile |-> IsFile(fs, safePath)]),
                        {FsOp("stat", safePath)}, fs)
         ELSE Outcome(Thrown("FailedToStat"), {FsOp("stat", safePath)}, fs)

replace_in_file(p, old_content, new_content) ==
  /\ pc = "idle"
  /\ pc' = "done"
  /\ call' = Called("replace_in_file", p, <<old_content, new_content>>)
  /\ UNCHANGED <<root, toolSchema, shellVars, netVars, lifeVars, raceVars>>
  /\ LET v == validatePath(root, p)
         safePath == v.path
         opened == {FsOp("open", safePath)}
     IN  IF ~v.ok THEN Outcome(Thrown(v.error), {}, fs)
         ELSE IF isBinaryFile(fs, safePath)
           THEN Outcome(Thrown("BinaryBlocked"), opened, fs)
         ELSE IF ~IsFile(fs, safePath)
           THEN Outcome(Thrown("FailedToRead"), opened \cup {FsOp("readFile", safePath)}, fs)
         ELSE LET e == replaceContent(fs[safePath].content, old_content, new_content)
              IN  IF e.status /= "ok"
                    THEN Outcome(Thrown(e.status),
                                 opened \cup {FsOp("readFile", safePath)}, fs)
                  ELSE Outcome(Returned(<<>>),
                               opened \cup {FsOp("readFile", safePath),
                                            FsOp("writeFile", safePath)},
                               WriteFileFs(fs, safePath, e.final))

MAX_RESULTS == 50
IGNORED_DIRS ==
  { <<"n", "o", "d", "e", "_", "m", "o", "d", "u", "l", "e", "s">>,
    <<".", "g", "i", "t">>,
    <<"d", "i", "s", "t">>,
    <<"c", "o", "v", "e", "r", "a", "g", "e">>,
    <<"b", "u", "i", "l", "d">>,
    <<".", "D", "S", "_", "S", "t", "o", "r", "e">> }

\* the entries of a directory in the order readdir returns them (an order of
\* the platform; a fixed one here)
RECURSIVE SeqOfSet(_)
SeqOfSet(S) ==
  IF S = {} THEN <<>>
  ELSE LET x == CHOOSE y \in S : TRUE IN <<x>> \o SeqOfSet(S \ {x})

\* new RegExp(term).test(lineContent) for a term without metacharacters
RegExpTest(term, lineContent) == includes(lineContent, term)

\* lines.forEach of walk: one result per matching line while below the limit
RECURSIVE PushMatches(_, _, _, _, _)
PushMatches(results, lines, index, term, file) ==
  IF index > Len(lines) THEN results
  ELSE IF Len(results) < MAX_RESULTS /\ RegExpTest(term, lines[index])
    THEN PushMatches(Append(results, [file |-> file, line |-> index]),
                     lines, index + 1, term, file)
  ELSE PushMatches(results, lines, index + 1, term, file)

\* walk(currentDir) of search_files; acc holds the results so far, the fs
\* calls made and whether readdir threw
RECURSIVE Walk(_, _, _, _, _)
RECURSIVE WalkEntries(_, _, _, _, _)
Walk(f, rootDir, currentDir, term, acc) ==
  IF Len(acc.results) >= MAX_RESULTS THEN acc
  ELSE IF ~IsDir(f, currentDir)
    THEN [acc EXCEPT !.log = @ \cup {FsOp("readdir", currentDir)}, !.threw = TRUE]
  ELSE WalkEntries(f, rootDir, SeqOfSet(Children(f, currentDir)), term,
                   [acc EXCEPT !.log = @ \cup {FsOp("readdir", currentDir)}])

WalkEntries(f, rootDir, entries, term, acc) ==
  IF entries = <<>> \/ acc.threw \/ Len(acc.results) >= MAX_RESULTS THEN acc
  ELSE LET fullPath == Head(entries)
           name == fullPath[Len(fullPath)]
           opened == [acc EXCEPT !.log = @ \cup {FsOp("open", fullPath)}]
           read == [opened EXCEPT !.log = @ \cup {FsOp("readFile", fullPath)}]
           after ==
             IF IsDir(f, fullPath)
               THEN IF name \notin IGNORED_DIRS
                      THEN Walk(f, rootDir, fullPath, term, acc)
                      ELSE acc
             ELSE IF isBinaryFile(f, fullPath) THEN opened
             ELSE [read EXCEPT !.results =
                     PushMatches(@, SplitLines(f[fullPath].content), 1, term,
                                 PathRelative(rootDir, fullPath))]
       IN  WalkEntries(f, rootDir, Tail(entries), term, after)

search_files(p, term) ==
  /\ pc = "idle"
  /\ pc' = "done"
  /\ call' = Called("search_files", p, <<term>>)
  /\ UNCHANGED <<root, toolSchema, shellVars, netVars, lifeVars, raceVars>>
  /\ LET v == validatePath(root, p)
         safeDir == v.path
         w == Walk(fs, root, safeDir, term, [results |-> <<>>, log |-> {}, threw |-> FALSE])
     IN  IF ~v.ok THEN Outcome(Thrown(v.error), {}, fs)
         ELSE IF w.threw THEN Outcome(Thrown("ReaddirFailed"), w.log, fs)
         ELSE Outcome(Returned(w.results), w.log, fs)

(***************************************************************************)
(* The file and editor tools of one Workspace, called one after another    *)
(* with arbitrary path arguments.                                          *)
(***************************************************************************)
FsPaths ==
  { <<>>, <<".">>, <<"a">>, <<"a", "/", "a">>, <<".", ".">>, <<".", ".", "/", "a">>,
    <<"/">>, <<"/", "a">>, <<"/", "a", "/", "a">>, <<".", ".", "a">>,
    <<"a", "/", ".", ".">>, <<".", "g", "i", "t", "/", "a">> }
WriteContents == {<<>>, <<"a">>, <<"NUL">>}
SearchTerms == {<<"a">>}

FilesBounded(f) == \A q \in DOMAIN f : Len(f[q].content) <= MaxFileLen

InitFs ==
  /\ root \in Roots
  /\ pc = "idle"
  /\ call = NoCall
  /\ ret = NoRet
  /\ fsLog = {}
  /\ fs \in {RootOnlyFs, Mkdir(RootOnlyFs, root)}
  /\ fsBefore = fs
  /\ NoSchemaState
  /\ NoShellState
  /\ NoNetState
  /\ NoLifeState
  /\ NoRaceState

NextFs ==
  \/ \E p \in FsPaths : read_file(p)
  \/ \E p \in FsPaths, c \in WriteContents : write_file(p, c)
  \/ \E p \in FsPaths, c \in WriteContents : append_file(p, c) /\ FilesBounded(fs')
  \/ \E p \in FsPaths : delete_file(p)
  \/ \E p \in FsPaths : list_files(p)
  \/ \E p \in FsPaths : stat_file(p)
  \/ \E p \in FsPaths, o \in WriteContents, n \in WriteContents :
       replace_in_file(p, o, n) /\ FilesBounded(fs')
  \/ \E p \in FsPaths, t \in SearchTerms : search_files(p, t)
  \/ Return

SpecFs == InitFs /\ [][NextFs]_vars

\* C2: whatever file and editor tools are called with whatever path arguments,
\* every path a call hands to a node:fs operation (open, read, write, append,
\* unlink, readdir, stat, mkdir) is Root itself or lies beneath Root.
C2_FsPathsWithinRoot ==
  \A e \in fsLog : IsRootOrBeneath(root, e.path)

(***************************************************************************)
(* adapters.ts: JSON Schema trees.  A node is a record of the keywords the *)
(* transform reads or writes; an absent keyword has its has-flag FALSE (or *)
(* "absent", the empty sequence, the empty set).                           *)
(***************************************************************************)
NoType == [k |-> "none", v |-> <<>>]
TypeStr(t) == [k |-> "str", v |-> <<t>>]
TypeArr(ts) == [k |-> "arr", v |-> ts]

KeyOrder == <<"a", "b">>
Range(q) == {q[i] : i \in DOMAIN q}

\* Object.keys(properties): the property names in declaration order
ObjectKeys(properties) == SelectSeq(KeyOrder, LAMBDA k : k \in DOMAIN properties)

NoProps == [k \in {} |-> NoType]

Node(type, hasProperties, properties, hasRequired, required, addl, items, hasAnyOf, anyOf, banned) ==
  [ type |-> type,
    hasProperties |-> hasProperties, properties |-> properties,
    hasRequired |-> hasRequired, required |-> required,
    additionalProperties |-> addl,
    items |-> items,
    hasAnyOf |-> hasAnyOf, anyOf |-> anyOf,
    banned |-> banned,
    top |-> {} ]

BANNED ==
  {"format", "pattern", "minLength", "maxLength", "default", "minItems", "maxItems", "uniqueItems"}

\* sanitize as the earlier enforceStrict walked the tree: the variants of a
\* union are not visited
RECURSIVE sanitizeSkippingUnions(_)
sanitizeSkippingUnions(schema) ==
  LET s == [schema EXCEPT !.banned = @ \ BANNED]
  IN  IF s.type = TypeStr("object")
        THEN [s EXCEPT !.additionalProperties = "false",
                       !.hasRequired = TRUE,
                       !.required = ObjectKeys(s.properties),
                       !.properties = [k \in DOMAIN @ |-> sanitizeSkippingUnions(@[k])]]
      ELSE IF s.type = TypeStr("array")
        THEN [s EXCEPT !.items = [i \in DOMAIN @ |-> sanitizeSkippingUnions(@[i])]]
      ELSE s

\* sanitize: strip the banned keywords; on an object node forbid extra keys,
\* require every property and recurse into the properties; recurse into an
\* array's items, else into the variants of a union
RECURSIVE sanitize(_)
sanitize(schema) ==
  LET s == [schema EXCEPT !.banned = @ \ BANNED]
  IN  IF s.type = TypeStr("object")
        THEN [s EXCEPT !.additionalProperties = "false",
                       !.hasRequired = TRUE,
                       !.required = ObjectKeys(s.properties),
                       !.properties = [k \in DOMAIN @ |-> sanitize(@[k])]]
      ELSE IF s.type = TypeStr("array")
        THEN [s EXCEPT !.items = [i \in DOMAIN @ |-> sanitize(@[i])]]
      ELSE IF s.hasAnyOf
        THEN [s EXCEPT !.anyOf = [i \in DOMAIN @ |-> sanitize(@[i])]]
      ELSE s

NullVariant == Node(TypeStr("null"), FALSE, NoProps, FALSE, <<>>, "absent", <<>>, FALSE, <<>>, {})

\* lines 108-118 of fixOptionality: add null to the type of a property that
\* was not required
widenToNull(prop) ==
  IF prop.type.k = "arr"
    THEN IF "null" \in Range(prop.type.v) THEN prop
         ELSE [prop EXCEPT !.type = TypeArr(Append(@.v, "null"))]
  ELSE IF prop.type.k = "str"
    THEN [prop EXCEPT !.type = TypeArr(<<@.v[1], "null">>)]
  ELSE IF prop.hasAnyOf
    THEN [prop EXCEPT !.anyOf = Append(@, NullVariant)]
  ELSE prop

\* fixOptionality with the test of line 107 inverted: the properties that were
\* required are the ones widened
RECURSIVE fixOptionalityInverted(_)
fixOptionalityInverted(schema) ==
  IF schema.type = TypeStr("object") /\ schema.hasProperties
    THEN LET existingRequired == IF schema.hasRequired THEN Range(schema.required) ELSE {}
             allKeys == ObjectKeys(schema.properties)
         IN  [schema EXCEPT
                !.hasRequired = TRUE,
                !.required = allKeys,
                !.properties = [k \in DOMAIN @ |->
                   fixOptionalityInverted(IF k \in existingRequired THEN widenToNull(@[k])
                                          ELSE @[k])]]
  ELSE IF schema.type = TypeStr("array") /\ schema.items /= <<>>
    THEN [schema EXCEPT !.items = <<fixOptionalityInverted(@[1])>>]
  ELSE schema

\* fixOptionality: on an object node with properties, require every property
\* and widen those absent from the node's required list as it stands when the
\* pass reaches the node; recurse into properties and array items
RECURSIVE fixOptionality(_)
fixOptionality(schema) ==
  IF schema.type = TypeStr("object") /\ schema.hasProperties
    THEN LET existingRequired == IF schema.hasRequired THEN Range(schema.required) ELSE {}
             allKeys == ObjectKeys(schema.properties)
         IN  [schema EXCEPT
                !.hasRequired = TRUE,
                !.required = allKeys,
                !.properties = [k \in DOMAIN @ |->
                   fixOptionality(IF k \notin existingRequired THEN widenToNull(@[k])
                                  ELSE @[k])]]
  ELSE IF schema.type = TypeStr("array") /\ schema.items /= <<>>
    THEN [schema EXCEPT !.items = <<fixOptionality(@[1])>>]
  ELSE schema

\* toStrictSchema on the tree zodToJsonSchema yields: the top-level cleanup
\* ($schema, definitions, default), then the two passes
toStrictSchema(jsonSchema) ==
  fixOptionality(sanitize([jsonSchema EXCEPT !.top = {}, !.banned = @ \ {"default"}]))

\* a non-strict branch that still runs the second pass
toLooseSchemaWidened(jsonSchema) ==
  fixOptionality([jsonSchema EXCEPT !.top = @ \ {"$schema"}, !.additionalProperties = "absent"])

\* the non-strict branch of an adapter: only $schema and the top-level
\* additionalProperties are deleted
toLooseSchema(jsonSchema) ==
  [jsonSchema EXCEPT !.top = @ \ {"$schema"}, !.additionalProperties = "absent"]

\* the options argument: "default" is a call without options ({strict: true}),
\* otherwise the value of options.strict ("undefined": an object without it)
OptionsStrict(options) == IF options = "default" THEN "true" ELSE options

toOpenAITools(jsonSchema, options) ==
  [ type |-> "function",
    function |->
      [ name |-> "tool",
        description |-> "description",
        parameters |-> IF OptionsStrict(options) = "true" THEN toStrictSchema(jsonSchema)
                       ELSE toLooseSchema(jsonSchema),
        strict |-> OptionsStrict(options) ] ]

toAnthropicTools(jsonSchema, options) ==
  [ name |-> "tool",
    description |-> "description",
    input_schema |-> IF OptionsStrict(options) = "true" THEN toStrictSchema(jsonSchema)
                     ELSE toLooseSchema(jsonSchema) ]

\* a Gemini adapter that goes through the strict transform
toGeminiToolsStrict(jsonSchema) ==
  [ name |-> "tool",
    description |-> "description",
    parameters |->
      [ type |-> "OBJECT",
        properties |-> toStrictSchema(jsonSchema).properties,
        required |-> toStrictSchema(jsonSchema).required ] ]

toGeminiTools(jsonSchema) ==
  [ name |-> "tool",
    description |-> "description",
    parameters |->
      [ type |-> "OBJECT",
        properties |-> toLooseSchema(jsonSchema).properties,
        required |-> IF jsonSchema.hasRequired THEN jsonSchema.required ELSE <<>> ] ]

(***************************************************************************)
(* The schemas zodToJsonSchema yields for tool inputs: objects list their  *)
(* non-optional properties in required (no required keyword when there is *)
(* none) and carry additionalProperties: false.                            *)
(***************************************************************************)
Prim(t, banned) == Node(TypeStr(t), FALSE, NoProps, FALSE, <<>>, "absent", <<>>, FALSE, <<>>, banned)
Nullable(t) == Node(TypeArr(<<t, "null">>), FALSE, NoProps, FALSE, <<>>, "absent", <<>>, FALSE, <<>>, {})
Union(variants) == Node(NoType, FALSE, NoProps, FALSE, <<>>, "absent", <<>>, TRUE, variants, {})
Array(item, banned) == Node(TypeStr("array"), FALSE, NoProps, FALSE, <<>>, "absent", <<item>>, FALSE, <<>>, banned)
Obj(properties, requiredSet) ==
  Node(TypeStr("object"), TRUE, properties, requiredSet /= {},
       SelectSeq(KeyOrder, LAMBDA k : k \in requiredSet), "false", <<>>, FALSE, <<>>, {})
\* z.record(...): an object without properties whose additionalProperties is a schema
Record == Node(TypeStr("object"), FALSE, NoProps, FALSE, <<>>, "schema", <<>>, FALSE, <<>>, {})

ObjectsOver(keys, children) ==
  UNION { UNION { { Obj(props, R) : R \in SUBSET K } : props \in [K -> children] }
          : K \in SUBSET keys }

Leaves ==
  { Prim("string", {}), Prim("string", {"format", "default"}), Nullable("string"),
    Union(<<Prim("string", {}), Prim("integer", {})>>) }
SmallObjects == ObjectsOver({"a"}, {Prim("string", {"pattern"})})
Nested ==
  Leaves
    \cup ObjectsOver({"a"}, Leaves)
    \cup {Array(i, {"minItems"}) : i \in {Prim("string", {})} \cup SmallObjects}
    \cup {Union(<<o, Prim("null", {})>>) : o \in SmallObjects}
    \cup {Union(<<Array(o, {}), Prim("string", {})>>) : o \in SmallObjects}
    \cup {Obj([k \in {"b"} |-> Array(o, {})], {}) : o \in SmallObjects}
    \cup {Record}
ToolSchemas ==
  {[o EXCEPT !.top = {"$schema"}] : o \in ObjectsOver({"a", "b"}, Nested)}

AdapterOptions == {"default", "true", "false", "undefined"}

(***************************************************************************)
(* The provider adapters applied to one tool.                              *)
(***************************************************************************)
InitSchema ==
  /\ root \in {<<>>}
  /\ pc = "idle"
  /\ call = NoCall
  /\ ret = NoRet
  /\ NoFsState
  /\ toolSchema \in ToolSchemas
  /\ NoShellState
  /\ NoNetState
  /\ NoLifeState
  /\ NoRaceState

\* an adapter that edits the tool's own schema object
DeclaredAfterInPlace(declared, converted) == converted

\* zodToJsonSchema(tool.schema) builds a new object on every call: what the
\* adapter then deletes or rewrites in that object does not reach tool.schema
DeclaredAfter(declared, converted) == declared

\* the object an adapter has converted and edited in place
ConvertedBy(name, jsonSchema, options) ==
  IF name /= "toGeminiTools" /\ OptionsStrict(options) = "true"
    THEN toStrictSchema(jsonSchema)
  ELSE toLooseSchema(jsonSchema)

Adapter(name, options, emitted) ==
  /\ pc = "idle"
  /\ pc' = "done"
  /\ call' = [tool |-> name, options |-> options, declared |-> toolSchema]
  /\ ret' = emitted
  /\ toolSchema' = DeclaredAfter(toolSchema, ConvertedBy(name, toolSchema, options))
  /\ UNCHANGED <<root, fsVars, shellVars, netVars, lifeVars, raceVars>>

NextSchema ==
  \/ \E o \in AdapterOptions : Adapter("toOpenAITools", o, toOpenAITools(toolSchema, o))
  \/ \E o \in AdapterOptions : Adapter("toAnthropicTools", o, toAnthropicTools(toolSchema, o))
  \/ \E o \in AdapterOptions : Adapter("toGeminiTools", o, toGeminiTools(toolSchema))
  \/ Return

SpecSchema == InitSchema /\ [][NextSchema]_vars

\* the schema a strict adapter call has emitted
StrictCall ==
  /\ pc = "done"
  /\ call.tool \in {"toOpenAITools", "toAnthropicTools"}
  /\ OptionsStrict(call.options) = "true"
StrictOut ==
  IF call.tool = "toOpenAITools" THEN ret.function.parameters ELSE ret.input_schema

\* a node's type admits null: a type list holding null, the null type, or a
\* union with such a variant
AdmitsNull(n) ==
  \/ "null" \in Range(n.type.v)
  \/ n.hasAnyOf /\ \E i \in DOMAIN n.anyOf : "null" \in Range(n.anyOf[i].type.v)

\* C3: for an object schema with N properties of which M are optional, the
\* strict output requires exactly the N names, the properties that admit null
\* are exactly the M optional ones (besides those that admitted null already),
\* and a required property keeps its type.
C3_OptionalWidenedRequiredKept ==
  StrictCall =>
    LET names == DOMAIN toolSchema.properties
        required == IF toolSchema.hasRequired THEN Range(toolSchema.required) ELSE {}
        optional == names \ required
        out == StrictOut
    IN  /\ Len(out.required) = Cardinality(names)
        /\ Range(out.required) = names
        /\ {k \in names : AdmitsNull(out.properties[k])}
             = optional \cup {k \in required : AdmitsNull(toolSchema.properties[k])}
        /\ \A k \in required :
             /\ out.properties[k].type = toolSchema.properties[k].type
             /\ Len(out.properties[k].anyOf) = Len(toolSchema.properties[k].anyOf)

\* every object node of a tree, reached through properties, array items and
\* union variants, requires exactly its property names and forbids extra keys
RECURSIVE ObjectNodesStrict(_)
ObjectNodesStrict(n) ==
  /\ n.type = TypeStr("object") =>
       /\ n.hasRequired
       /\ Range(n.required) = DOMAIN n.properties
       /\ Len(n.required) = Cardinality(DOMAIN n.properties)
       /\ n.additionalProperties = "false"
  /\ \A k \in DOMAIN n.properties : ObjectNodesStrict(n.properties[k])
  /\ \A i \in DOMAIN n.items : ObjectNodesStrict(n.items[i])
  /\ \A i \in DOMAIN n.anyOf : ObjectNodesStrict(n.anyOf[i])

\* an object node of the source that has properties and no required list
LooseObject(n) ==
  /\ n.type = TypeStr("object")
  /\ DOMAIN n.properties /= {}
  /\ ~n.hasRequired

\* C4: in the strict output every object node at every depth (top level,
\* nested property, array item schema, union variant) has required equal to
\* its full set of property names and additionalProperties false.
C4_EveryObjectNodeStrict ==
  StrictCall => ObjectNodesStrict(StrictOut)

\* C4 happens: a strict call on a schema whose property a is a union with a
\* loose object variant and whose property b is an object holding an array of
\* loose objects
C4_Witness ==
  /\ StrictCall
  /\ DOMAIN toolSchema.properties = {"a", "b"}
  /\ toolSchema.properties["a"].hasAnyOf
  /\ LooseObject(toolSchema.properties["a"].anyOf[1])
  /\ LooseObject(toolSchema.properties["b"])
  /\ "b" \in DOMAIN toolSchema.properties["b"].properties
  /\ toolSchema.properties["b"].properties["b"].type = TypeStr("array")
  /\ LooseObject(toolSchema.properties["b"].properties["b"].items[1])
  /\ ObjectNodesStrict(StrictOut)

\* C5: the strict transform applied to its own output yields that output.
C5_StrictIdempotent ==
  StrictCall => toStrictSchema(StrictOut) = StrictOut

\* C5 happens: a strict call that changed the schema, on a schema with a
\* banned keyword, an optional property and a union-typed property
C5_Witness ==
  /\ StrictCall
  /\ StrictOut /= [toolSchema EXCEPT !.top = {}]
  /\ \E k \in DOMAIN toolSchema.properties :
       /\ k \notin Range(toolSchema.required)
       /\ toolSchema.properties[k].hasAnyOf
  /\ \E k \in DOMAIN toolSchema.properties : toolSchema.properties[k].banned /= {}
  /\ toStrictSchema(StrictOut) = StrictOut

(***************************************************************************)
(* replace_in_file on one text file of every content, with every search    *)
(* and replacement text.                                                   *)
(***************************************************************************)
EditChars == {"a", "CR", "LF"}
EditRoot == <<<<"w">>>>
EditPath == <<"f">>
EditFile == <<<<"w">>, <<"f">>>>

InitEdit ==
  /\ root = EditRoot
  /\ pc = "idle"
  /\ call = NoCall
  /\ ret = NoRet
  /\ fsLog = {}
  /\ \E c \in StringsUpTo(EditChars, MaxEditLen) :
       fs = WriteFileFs(Mkdir(RootOnlyFs, EditRoot), EditFile, c)
  /\ fsBefore = fs
  /\ NoSchemaState
  /\ NoShellState
  /\ NoNetState
  /\ NoLifeState
  /\ NoRaceState

NextEdit ==
  \E o \in StringsUpTo(EditChars, MaxOldLen), n \in StringsUpTo(EditChars, MaxNewLen) :
    replace_in_file(EditPath, o, n)

SpecEdit == InitEdit /\ [][NextEdit]_vars

EditDone == pc = "done" /\ call.tool = "replace_in_file"
Before == fsBefore[EditFile].content
After == fs[EditFile].content
\* the number of places at which the normalized search text occurs in the
\* normalized content before the call
MatchCount ==
  Cardinality(Occurrences(ReplaceAll(Before, CRLF, LF), ReplaceAll(call.args[1], CRLF, LF)))

\* C6: replace_in_file succeeds and writes the file when the normalized search
\* text occurs exactly once in the normalized content; with no occurrence or
\* two or more (overlapping ones included) it fails with a not-found or
\* ambiguous-match error and the file is unmodified.
C6_SingleMatchOrUntouched ==
  EditDone =>
    /\ MatchCount = 1 => (ret.ok /\ FsOp("writeFile", EditFile) \in fsLog)
    /\ MatchCount = 0 => (~ret.ok /\ ret.error = "NotFound" /\ fs = fsBefore)
    /\ MatchCount >= 2 => (~ret.ok /\ ret.error = "Ambiguous" /\ fs = fsBefore)

\* C6 happens: a search text that overlaps itself in the file was refused
C6_Witness ==
  /\ EditDone
  /\ Before = <<"a", "a", "a">>
  /\ call.args[1] = <<"a", "a">>
  /\ MatchCount = 2
  /\ ~ret.ok
  /\ fs = fsBefore

\* the line endings of the content before the call
CrlfCount == Cardinality(Occurrences(Before, CRLF))
BareLfCount == Cardinality(Occurrences(Before, LF)) - CrlfCount

\* C7: a successful replace_in_file writes the edited text in the line-ending
\* style that was in the majority in the original (the only style of a
\* uniformly-LF or uniformly-CRLF file).
C7_DominantStyleRestored ==
  (EditDone /\ ret.ok /\ CrlfCount /= BareLfCount) =>
    LET edited == StringReplace(ReplaceAll(Before, CRLF, LF),
                                ReplaceAll(call.args[1], CRLF, LF),
                                ReplaceAll(call.args[2], CRLF, LF))
    IN  After = IF CrlfCount > BareLfCount THEN ReplaceAll(edited, LF, CRLF) ELSE edited

(***************************************************************************)
(* workspace.ts and tools/shell.ts: the persistent environment.  Each      *)
(* Workspace's envVars field refers to an object of the heap; the shell    *)
(* tools close over that reference.                                        *)
(***************************************************************************)
Workspaces == {"W1", "W2"}
EnvKeys == {"K", "__proto__"}
EnvValues == {"v1", "v2"}
DefaultTimeoutMs == 10000

\* obj[key] = value on a plain object: an own property is set or created,
\* except that the key __proto__, unless it is an own property already, goes
\* to the inherited accessor, which ignores a string
SetProperty(obj, key, value) ==
  IF key = "__proto__" /\ key \notin DOMAIN obj THEN obj
  ELSE [k \in DOMAIN obj \cup {key} |-> IF k = key THEN value ELSE obj[k]]

\* {...a, ...b}: the own properties of a, overridden by those of b
Spread(a, b) ==
  [k \in DOMAIN a \cup DOMAIN b |-> IF k \in DOMAIN b THEN b[k] ELSE a[k]]

\* the object literal of the constructor: {PATH: process.env.PATH || '', ...process.env}
NewEnvVars(processEnv) == Spread([k \in {"PATH"} |-> ""], processEnv)

\* a constructor that reuses the first Workspace's object
AllocEnvShared(w) == "W1"

\* process.env itself, an object of the host process like any other
HostObject == "process.env"

\* a constructor that keeps process.env itself as its envVars
AllocEnvLive(w) == HostObject

\* the object literal is a new object for each Workspace
AllocEnv(w) == w

\* new Workspace(options), on the shared Root
NewWorkspace(w) ==
  /\ pc = "idle"
  /\ envRef[w] = "none"
  /\ envRef' = [envRef EXCEPT ![w] = AllocEnv(w)]
  /\ heap' = [o \in DOMAIN heap \cup {AllocEnv(w)} |->
                IF o = AllocEnv(w) THEN NewEnvVars(hostEnv) ELSE heap[o]]
  /\ UNCHANGED <<root, pc, call, ret, fsVars, toolSchema, hostEnv, setByTool, netVars, lifeVars, raceVars>>

set_env_var(w, key, value) ==
  /\ pc = "idle"
  /\ envRef[w] /= "none"
  /\ pc' = "done"
  /\ call' = [tool |-> "set_env_var", ws |-> w, key |-> key, value |-> value]
  /\ heap' = [heap EXCEPT ![envRef[w]] = SetProperty(@, key, value)]
  /\ hostEnv' = IF envRef[w] = HostObject THEN SetProperty(hostEnv, key, value) ELSE hostEnv
  /\ setByTool' = [setByTool EXCEPT ![w] = Spread(@, [k \in {key} |-> value])]
  /\ ret' = Returned(<<"Environment variable ", key, " set.">>)
  /\ UNCHANGED <<root, fsVars, toolSchema, envRef, netVars, lifeVars, raceVars>>

\* execa's reject option left at its default
ExecaRejectDefault == TRUE

\* the reject option run_shell_cmd passes to execa
ExecaReject == FALSE

Number(n) == [t |-> "number", n |-> n]
Undefined == [t |-> "undefined", n |-> 0]
Null == [t |-> "null", n |-> 0]

\* what the child process does: it exits with a code, cannot be spawned, is
\* killed at the timeout, or execa refuses the arguments
ExecaOutcomes ==
  {[kind |-> "exit", code |-> c, stdout |-> o, stderr |-> e]
     : c \in 0..MaxExitCode, o \in {"", "out"}, e \in {"", "err"}}
  \cup {[kind |-> k, code |-> 0, stdout |-> "", stderr |-> ""]
          : k \in {"enoent", "timeout", "throw"}}

\* execa(command, args, {reject, ...}): with reject false a failed child
\* resolves like a successful one (exitCode undefined when it never exited);
\* with reject true it rejects; refused arguments always throw
execa(outcome, reject) ==
  IF outcome.kind = "throw" \/ (reject /\ (outcome.kind /= "exit" \/ outcome.code /= 0))
    THEN [threw |-> TRUE, message |-> "Command failed",
          stdout |-> "", stderr |-> "", exitCode |-> Undefined]
  ELSE [threw |-> FALSE, message |-> "",
        stdout |-> outcome.stdout, stderr |-> outcome.stderr,
        exitCode |-> IF outcome.kind = "exit" THEN Number(outcome.code) ELSE Undefined]

run_shell_cmd(w, outcome) ==
  /\ pc = "idle"
  /\ envRef[w] /= "none"
  /\ pc' = "done"
  /\ call' = [tool |-> "run_shell_cmd", ws |-> w, outcome |-> outcome,
              spawn |-> [cwd |-> root, timeout |-> DefaultTimeoutMs,
                         env |-> Spread(hostEnv, heap[envRef[w]])]]
  /\ LET r == execa(outcome, ExecaReject)
     IN  ret' = IF r.threw
                  THEN Returned([hasError |-> TRUE, error |-> r.message,
                                 stdout |-> "", stderr |-> "", exitCode |-> Number(-1)])
                ELSE Returned([hasError |-> FALSE, error |-> "",
                               stdout |-> r.stdout, stderr |-> r.stderr,
                               exitCode |-> IF r.exitCode = Undefined THEN Null
                                            ELSE r.exitCode])
  /\ UNCHANGED <<root, fsVars, toolSchema, shellVars, netVars, lifeVars, raceVars>>

(***************************************************************************)
(* Two Workspaces on one Root, their shell tools called one after another. *)
(***************************************************************************)
HostEnvs ==
  { [k \in {"PATH"} |-> "/bin"],
    [k \in {"PATH", "K"} |-> IF k = "PATH" THEN "/bin" ELSE "v1"],
    [k \in {"K"} |-> "v2"] }

InitShell ==
  /\ root = EditRoot
  /\ pc = "idle"
  /\ call = NoCall
  /\ ret = NoRet
  /\ NoFsState
  /\ NoSchemaState
  /\ hostEnv \in HostEnvs
  /\ envRef = [w \in Workspaces |-> "none"]
  /\ heap = [o \in {} |-> <<>>]
  /\ setByTool = [w \in Workspaces |-> [k \in {} |-> ""]]
  /\ NoNetState
  /\ NoLifeState
  /\ NoRaceState

NextShell ==
  \/ \E w \in Workspaces : NewWorkspace(w)
  \/ \E w \in Workspaces, k \in EnvKeys, v \in EnvValues : set_env_var(w, k, v)
  \/ \E w \in Workspaces, o \in ExecaOutcomes : run_shell_cmd(w, o)
  \/ Return

SpecShell == InitShell /\ [][NextShell]_vars

ShellRan == pc = "done" /\ call.tool = "run_shell_cmd"

\* C8: once set_env_var(k, v) has succeeded on a Workspace, every later
\* run_shell_cmd of that Workspace is spawned with k equal to the value last
\* set, whatever calls came in between.
C8_SetVarsReachEveryLaterShell ==
  ShellRan =>
    \A k \in DOMAIN setByTool[call.ws] :
      /\ k \in DOMAIN call.spawn.env
      /\ call.spawn.env[k] = setByTool[call.ws][k]

\* C9: a key set with set_env_var on one Workspace, and absent from the host
\* environment, is absent from the environment of every other Workspace on the
\* same Root, constructed before or after, unless set there too.
C9_EnvIsolatedBetweenWorkspaces ==
  \A w1 \in Workspaces, w2 \in Workspaces :
    (w1 /= w2 /\ envRef[w2] /= "none") =>
      \A k \in DOMAIN setByTool[w1] :
        (k \notin DOMAIN hostEnv /\ k \notin DOMAIN setByTool[w2])
          => k \notin DOMAIN heap[envRef[w2]]

\* C9 happens: K, unknown to the host, is set in W1's environment and both
\* Workspaces exist
C9_Witness ==
  /\ envRef["W1"] /= "none"
  /\ envRef["W2"] /= "none"
  /\ "K" \notin DOMAIN hostEnv
  /\ "K" \in DOMAIN setByTool["W1"]
  /\ "K" \in DOMAIN heap[envRef["W1"]]
  /\ "K" \notin DOMAIN heap[envRef["W2"]]

\* C10: a command that is spawned and exits with a code c other than 0 makes
\* run_shell_cmd return {exitCode: c, stdout, stderr} as data: nothing is
\* thrown and the result has no error field.
C10_NonZeroExitIsData ==
  (ShellRan /\ call.outcome.kind = "exit" /\ call.outcome.code /= 0) =>
    /\ ret.ok
    /\ ~ret.value.hasError
    /\ ret.value.exitCode = Number(call.outcome.code)
    /\ ret.value.stdout = call.outcome.stdout
    /\ ret.value.stderr = call.outcome.stderr

\* C10 happens: a command exited with code 2 and wrote to stderr
C10_Witness ==
  /\ ShellRan
  /\ call.outcome.kind = "exit"
  /\ call.outcome.code = 2
  /\ call.outcome.stderr = "err"
  /\ ret.value.exitCode = Number(2)
  /\ ~ret.value.hasError

SpawnFailed == ShellRan /\ call.outcome.kind \in {"enoent", "timeout"}

\* C11: when the executable is missing or the timeout expires, run_shell_cmd
\* does not throw and returns the shape of success (stdout, stderr, exitCode)
\* with a non-empty error field; the error field appears in no other case than
\* a failure to run the command.
C11_SpawnFailureHasErrorField ==
  ShellRan =>
    /\ ret.ok
    /\ SpawnFailed => (ret.value.hasError /\ ret.value.error /= "")
    /\ ret.value.hasError => call.outcome.kind /= "exit"

(***************************************************************************)
(* tools/network.ts.  A hostname is its sequence of labels; a URL is the   *)
(* host as written and the port.                                           *)
(***************************************************************************)
PingTimeoutMs == 5000

\* String.prototype.toLowerCase on a label
ToLowerCase(label) == IF label = "API" THEN "api" ELSE label

\* new URL(url).hostname: the host in lower case, without the port
URLHostname(url) == [i \in DOMAIN url.host |-> ToLowerCase(url.host[i])]

\* Array.prototype.includes: strict equality with some element
ArrayIncludes(list, x) == \E i \in DOMAIN list : list[i] = x

Undef == [set |-> FALSE, list |-> <<>>]
Defined(list) == [set |-> TRUE, list |-> list]

\* 1. Domain Security Check: TRUE when the request may go on
DomainAllowed(allowed, hostname) ==
  ~(allowed.set /\ Len(allowed.list) > 0 /\ ~ArrayIncludes(allowed.list, hostname))

\* 2.-3. the header object and the options handed to fetch
FetchOptions(method, headers, body) ==
  LET hasBody == method /= "GET" /\ method /= "HEAD"
  IN  [method |-> method,
       headers |-> Spread([k \in {"User-Agent"} |-> "llm-workspace/1.0"], headers),
       body |-> IF hasBody /\ body.set /\ body.list /= <<>> THEN body ELSE Undef]

http_request(url, method, headers, body, outcome) ==
  /\ pc = "idle"
  /\ pc' = "done"
  /\ call' = [tool |-> "http_request", url |-> url, method |-> method,
              headers |-> headers, body |-> body, outcome |-> outcome]
  /\ IF ~DomainAllowed(allowedDomains, URLHostname(url))
       THEN /\ ret' = Thrown("SecurityViolation")
            /\ netLog' = netLog
     ELSE /\ netLog' = Append(netLog, [url |-> url,
                                      options |-> FetchOptions(method, headers, body)])
          /\ ret' = IF outcome.kind = "response"
                      THEN Returned([status |-> outcome.status,
                                     statusText |-> outcome.statusText,
                                     headers |-> outcome.headers,
                                     body |-> outcome.body])
                    ELSE Thrown("HTTPRequestFailed")
  /\ UNCHANGED <<root, fsVars, toolSchema, shellVars, allowedDomains, lifeVars, raceVars>>

\* /[^a-zA-Z0-9.-]/.test(target)
InvalidTarget(target) == \E i \in DOMAIN target : target[i] \notin {"a", "1", ".", "-"}

\* the catch of ping_host throws the failure on
pingResultRethrow(r) ==
  IF r.threw THEN Thrown(r.message)
  ELSE Returned([reachable |-> TRUE, output |-> r.stdout])

\* the try and catch of ping_host around execa
pingResult(r) ==
  IF r.threw THEN Returned([reachable |-> FALSE, error |-> r.message])
  ELSE Returned([reachable |-> TRUE, output |-> r.stdout])

\* execa('ping', args, {timeout: 5000}): the reject option is not given
PingReject == TRUE

ping_host(target, platform, outcome) ==
  /\ pc = "idle"
  /\ pc' = "done"
  /\ LET countFlag == IF platform = "win32" THEN "-n" ELSE "-c"
         args == <<countFlag, "2", target>>
         invalid == InvalidTarget(target)
     IN  /\ call' = [tool |-> "ping_host", target |-> target, outcome |-> outcome,
                     spawn |-> IF invalid THEN <<>>
                               ELSE <<[command |-> "ping", args |-> args,
                                       timeout |-> PingTimeoutMs]>>]
         /\ ret' = IF invalid THEN Thrown("InvalidTargetFormat")
                   ELSE pingResult(execa(outcome, PingReject))
  /\ UNCHANGED <<root, fsVars, toolSchema, shellVars, netVars, lifeVars, raceVars>>

(***************************************************************************)
(* A Workspace's process and network tools under every allow-list.         *)
(***************************************************************************)
ApiCom == <<"api", "com">>
AllowLists ==
  { Undef, Defined(<<>>), Defined(<<ApiCom>>), Defined(<<<<"com">>>>),
    Defined(<<<<"*", "com">>>>), Defined(<<<<"evil", "org">>, ApiCom>>) }
Urls ==
  {[host |-> h, port |-> q] :
     h \in {ApiCom, <<"API", "com">>, <<"com">>, <<"x", "api", "com">>, <<"evil", "org">>},
     q \in {"", "8080"}}
Methods == {"GET", "POST"}
HeaderLists == {[k \in {} |-> ""], [k \in {"User-Agent"} |-> "agent"]}
Bodies == {Undef, Defined(<<>>), Defined(<<"d">>)}
FetchOutcomes ==
  {[kind |-> "response", status |-> st, statusText |-> "", headers |-> <<>>, body |-> "text"]
     : st \in {200, 404}}
  \cup {[kind |-> "network_error", status |-> 0, statusText |-> "", headers |-> <<>>, body |-> ""]}
Targets == {<<"a">>, <<"1", ".", "1">>, <<"a", ";">>, <<"-", "a">>, <<>>}
Platforms == {"linux", "win32"}

InitNet ==
  /\ root = EditRoot
  /\ pc = "idle"
  /\ call = NoCall
  /\ ret = NoRet
  /\ NoFsState
  /\ NoSchemaState
  /\ hostEnv = [k \in {"PATH"} |-> "/bin"]
  /\ envRef = [w \in Workspaces |-> "none"]
  /\ heap = [o \in {} |-> <<>>]
  /\ setByTool = [w \in Workspaces |-> [k \in {} |-> ""]]
  /\ allowedDomains \in AllowLists
  /\ netLog = <<>>
  /\ NoLifeState
  /\ NoRaceState

NextNet ==
  \/ \E w \in Workspaces : NewWorkspace(w)
  \/ \E w \in Workspaces, o \in ExecaOutcomes : run_shell_cmd(w, o)
  \/ \E u \in Urls, m \in Methods, h \in HeaderLists, b \in Bodies, o \in FetchOutcomes :
       http_request(u, m, h, b, o)
  \/ \E t \in Targets, pf \in Platforms, o \in ExecaOutcomes : ping_host(t, pf, o)
  \/ Return

SpecNet == InitNet /\ [][NextNet]_vars

HttpRan == pc = "done" /\ call.tool = "http_request"

\* C12: under every configured allow-list, the empty one included, http_request
\* reaches the network only when the URL's hostname equals an element of the
\* list; any other request fails with the policy violation and reaches nothing.
\* Only an unset allow-list leaves requests unrestricted.
C12_ExactAllowList ==
  (HttpRan /\ allowedDomains.set) =>
    IF ArrayIncludes(allowedDomains.list, URLHostname(call.url))
      THEN netLog /= <<>>
    ELSE netLog = <<>> /\ ~ret.ok /\ ret.error = "SecurityViolation"

(***************************************************************************)
(* The classifier on its own, on files around the size of the sample: text *)
(* with at most one NUL byte.                                              *)
(***************************************************************************)
SampledFile == EditRoot \o <<"f">>
AbsentFile == EditRoot \o <<"x">>
FileSizes == {0, 1, 2, SampleSize - 1, SampleSize, SampleSize + 1, SampleSize + 2}
NulOffsets == {0, 1, 2, SampleSize - 2, SampleSize - 1, SampleSize, SampleSize + 1}
\* a file of n bytes whose byte at offset k, if it has one, is NUL
FileWithNulAt(n, k) == [i \in 1..n |-> IF i = k + 1 THEN "NUL" ELSE "a"]
SampledContents ==
  {FileWithNulAt(n, k) : n \in FileSizes, k \in NulOffsets}
    \cup {[i \in 1..n |-> "a"] : n \in FileSizes}
    \cup {<<"NUL", "NUL">>}

InitBinary ==
  /\ root = EditRoot
  /\ pc = "idle"
  /\ call = NoCall
  /\ ret = NoRet
  /\ fsLog = {}
  /\ \E c \in SampledContents : fs = WriteFileFs(Mkdir(RootOnlyFs, root), SampledFile, c)
  /\ fsBefore = fs
  /\ NoSchemaState
  /\ NoShellState
  /\ NoNetState
  /\ NoLifeState
  /\ NoRaceState

\* isBinaryFile(filePath) called on an absolute path
IsBinaryFile(p) ==
  /\ pc = "idle"
  /\ pc' = "done"
  /\ call' = Called("isBinaryFile", p, <<>>)
  /\ Outcome(Returned(isBinaryFile(fs, p)), {FsOp("open", p)}, fs)
  /\ UNCHANGED <<root, toolSchema, shellVars, netVars, lifeVars, raceVars>>

NextBinary ==
  \/ \E p \in {SampledFile, AbsentFile, EditRoot} : IsBinaryFile(p)
  \/ Return

SpecBinary == InitBinary /\ [][NextBinary]_vars

Classified == pc = "done" /\ call.tool = "isBinaryFile"
Bytes == IF IsFile(fs, call.path) THEN fs[call.path].content ELSE <<>>

GuardedTools == {"read_file", "append_file", "replace_in_file"}
TargetPath == validatePath(root, call.path).path
BinaryTarget ==
  /\ pc = "done"
  /\ call.tool \in GuardedTools
  /\ validatePath(root, call.path).ok
  /\ IsFile(fsBefore, TargetPath)
  /\ \E i \in 1..Len(fsBefore[TargetPath].content) :
       i <= 1024 /\ fsBefore[TargetPath].content[i] = "NUL"

\* C14: read_file, append_file and replace_in_file ask the classifier before
\* they touch the content: on a binary target the call fails as blocked,
\* returns no content, reads and writes nothing, and leaves the file as it was.
C14_BinaryTargetsRefused ==
  BinaryTarget =>
    /\ ~ret.ok
    /\ ret.error = "BinaryBlocked"
    /\ ret.value = <<>>
    /\ fsLog = {FsOp("open", TargetPath)}
    /\ fs = fsBefore

\* C14 happens: an append to an existing binary file was refused
C14_Witness ==
  /\ BinaryTarget
  /\ call.tool = "append_file"
  /\ call.args /= <<>>
  /\ ~ret.ok
  /\ fs[TargetPath].content = <<"NUL">>

GeminiCall == pc = "done" /\ call.tool = "toGeminiTools"
SourceRequired(jsonSchema) == IF jsonSchema.hasRequired THEN jsonSchema.required ELSE <<>>

\* C15: whatever options it is called with, the Gemini adapter emits the loose
\* form {name, description, parameters: {type: 'OBJECT', properties, required}}:
\* required is the source schema's own required list and every property is the
\* source's, no type widened with null.
C15_GeminiAlwaysLoose ==
  GeminiCall =>
    /\ DOMAIN ret = {"name", "description", "parameters"}
    /\ DOMAIN ret.parameters = {"type", "properties", "required"}
    /\ ret.parameters.type = "OBJECT"
    /\ ret.parameters.required = SourceRequired(call.declared)
    /\ ret.parameters.properties = call.declared.properties

\* C15 happens: the Gemini adapter, called with strict true, converted a tool
\* with an optional property, which stays out of required and without null
C15_Witness ==
  /\ GeminiCall
  /\ call.options = "true"
  /\ "a" \in DOMAIN call.declared.properties
  /\ "a" \notin Range(SourceRequired(call.declared))
  /\ "a" \notin Range(ret.parameters.required)
  /\ ~AdmitsNull(ret.parameters.properties["a"])

AdapterCall == pc = "done" /\ call.tool \in {"toOpenAITools", "toAnthropicTools", "toGeminiTools"}

\* the three loose conversions of a declared schema
LooseForms(jsonSchema) ==
  << toOpenAITools(jsonSchema, "false"), toAnthropicTools(jsonSchema, "false"),
     toGeminiTools(jsonSchema) >>

NonStrictCall ==
  /\ pc = "done"
  /\ call.tool \in {"toOpenAITools", "toAnthropicTools"}
  /\ call.options = "false"
EmittedSchema ==
  IF call.tool = "toOpenAITools" THEN ret.function.parameters ELSE ret.input_schema

\* C17: in non-strict mode the OpenAI and Anthropic adapters emit the converted
\* source schema with its required list and property types as they are; the
\* only differences are the top-level $schema marker and the top-level
\* additionalProperties, both removed.
C17_NonStrictKeepsOptionality ==
  NonStrictCall =>
    LET src == call.declared
        out == EmittedSchema
    IN  /\ out.hasRequired = src.hasRequired
        /\ out.required = src.required
        /\ out.properties = src.properties
        /\ out.type = src.type
        /\ "$schema" \notin out.top
        /\ out.additionalProperties = "absent"
        /\ [out EXCEPT !.top = {}, !.additionalProperties = "absent"]
             = [src EXCEPT !.top = {}, !.additionalProperties = "absent"]
        /\ out.top = src.top \ {"$schema"}

\* C17 happens: a non-strict call on a tool with an optional property and a
\* nested object, whose own additionalProperties stays
C17_Witness ==
  /\ NonStrictCall
  /\ call.declared.additionalProperties = "false"
  /\ "$schema" \in call.declared.top
  /\ {"a", "b"} \subseteq DOMAIN call.declared.properties
  /\ "a" \notin Range(SourceRequired(call.declared))
  /\ ~AdmitsNull(EmittedSchema.properties["a"])
  /\ EmittedSchema.properties["b"].additionalProperties = "false"

OpenAIOrAnthropicCall ==
  pc = "done" /\ call.tool \in {"toOpenAITools", "toAnthropicTools"}

\* C18: strict defaults to true: called without options, or with an options
\* object that has no strict key, toOpenAITools and toAnthropicTools emit the
\* strict form and toOpenAITools sets function.strict to true; in every call
\* the emitted strict flag is true iff the emitted parameters are strict.
C18_StrictDefaultsToTrue ==
  OpenAIOrAnthropicCall =>
    /\ call.options \in {"default", "undefined"} =>
         /\ ObjectNodesStrict(EmittedSchema)
         /\ call.tool = "toOpenAITools" => ret.function.strict = "true"
    /\ call.tool = "toOpenAITools" =>
         (ret.function.strict = "true" <=> ObjectNodesStrict(EmittedSchema))

\* the transport under the last call failed: the process could not be run to
\* its end, or fetch rejected
SpawnLevelFailure == call.outcome.kind \in {"enoent", "timeout", "throw"}
ShellTransportFailed == ShellRan /\ SpawnLevelFailure
PingTransportFailed ==
  pc = "done" /\ call.tool = "ping_host" /\ call.spawn /= <<>> /\ SpawnLevelFailure
HttpTransportFailed == HttpRan /\ netLog /= <<>> /\ call.outcome.kind = "network_error"

\* the keys of the object a handler resolved with
ShellOutputKeys(v) == {"stdout", "stderr", "exitCode"} \cup (IF v.hasError THEN {"error"} ELSE {})
PayloadKeys == IF ~ret.ok THEN {}
               ELSE IF call.tool = "run_shell_cmd" THEN ShellOutputKeys(ret.value)
               ELSE DOMAIN ret.value
SuccessKeys == IF call.tool = "run_shell_cmd" THEN {"stdout", "stderr", "exitCode"}
               ELSE IF call.tool = "ping_host" THEN {"reachable", "output"}
               ELSE {"status", "statusText", "headers", "body"}

\* C19: a failed spawn or fetch never surfaces as an exception: run_shell_cmd,
\* ping_host and http_request each resolve with a failure payload that has the
\* shape of their success result.
C19_TransportFailuresAreData ==
  (ShellTransportFailed \/ PingTransportFailed \/ HttpTransportFailed) =>
    /\ ret.ok
    /\ SuccessKeys \subseteq PayloadKeys

\* C19 as the code has it: a failed spawn is data for run_shell_cmd, which
\* resolves with stdout, stderr and exitCode, and for ping_host, which resolves
\* with {reachable: false, error}; a failed fetch makes http_request throw
\* 'HTTP Request failed'.
C19_SpawnFailuresAreDataFetchThrows ==
  /\ ShellTransportFailed =>
       ret.ok /\ {"stdout", "stderr", "exitCode"} \subseteq PayloadKeys
  /\ PingTransportFailed =>
       /\ ret.ok
       /\ PayloadKeys = {"reachable", "error"}
       /\ ret.value.reachable = FALSE
       /\ ret.value.error /= ""
  /\ HttpTransportFailed =>
       ~ret.ok /\ ret.error = "HTTPRequestFailed"

\* C19 happens: ping could not be spawned and ping_host resolved unreachable
C19_Witness ==
  /\ PingTransportFailed
  /\ call.outcome.kind = "enoent"
  /\ ret.ok
  /\ ret.value.reachable = FALSE

(***************************************************************************)
(* workspace.ts: init and destroy.  Both hand options.rootDir, as given, to *)
(* node:fs, which resolves a relative path against the working directory   *)
(* of the moment.                                                          *)
(***************************************************************************)
\* fs.rm(p, {recursive: true, force: true}) done: p and all beneath it are gone
Rm(f, p) == [q \in {x \in DOMAIN f : ~IsRootOrBeneath(p, x)} |-> f[q]]

\* what an rm leaves: everything removed, nothing removed (the call failed at
\* once), or only p itself left (the call failed on the way)
RmOutcomes == {"ok", "fail", "partial"}
RmResult(f, p, outcome) ==
  IF outcome = "ok" THEN Rm(f, p)
  ELSE IF outcome = "partial" /\ p \in DOMAIN f
    THEN [q \in (DOMAIN Rm(f, p)) \cup {p} |-> f[q]]
  ELSE f

\* the path the OS acts on for options.rootDir
RootDirNow == PathResolve(cwd, rootDirOption)

WorkspaceInit ==
  /\ pc = "idle"
  /\ pc' = "done"
  /\ call' = [tool |-> "init", path |-> RootDirNow, rm |-> <<>>]
  /\ IF MkdirOk(fs, RootDirNow)
       THEN Outcome(Returned(<<>>), {FsOp("mkdir", RootDirNow)}, Mkdir(fs, RootDirNow))
     ELSE Outcome(Thrown("MkdirFailed"), {FsOp("mkdir", RootDirNow)}, fs)
  /\ UNCHANGED <<root, toolSchema, shellVars, netVars, lifeVars, raceVars>>

\* a destroy that lets the failure of the removal out
destroyResultRethrow(outcome) ==
  IF outcome = "ok" THEN Returned(<<>>) ELSE Thrown("RmFailed")

\* the try and the empty catch of destroy around fs.rm
destroyResult(outcome) == Returned(<<>>)

WorkspaceDestroy(outcome) ==
  /\ pc = "idle"
  /\ pc' = "done"
  /\ call' = [tool |-> "destroy", path |-> RootDirNow,
              rm |-> <<[path |-> RootDirNow, outcome |-> outcome]>>]
  /\ Outcome(destroyResult(outcome), {FsOp("rm", RootDirNow)},
             RmResult(fs, RootDirNow, outcome))
  /\ UNCHANGED <<root, toolSchema, shellVars, netVars, lifeVars, raceVars>>

\* the host program changes its working directory
Chdir(d) ==
  /\ pc = "idle"
  /\ d /= cwd
  /\ cwd' = d
  /\ UNCHANGED <<root, pc, call, ret, fsVars, toolSchema, shellVars, netVars, rootDirOption, raceVars>>

(***************************************************************************)
(* The life of one Workspace: init and destroy in any order.               *)
(***************************************************************************)
Cwds == {<<<<"a">>>>, <<<<"b">>>>}
RootDirOptions == {<<"w">>, <<".", "/", "w">>, <<"/", "w">>}
CwdsOnly == Mkdir(Mkdir(RootOnlyFs, <<<<"a">>>>), <<<<"b">>>>)

InitLife ==
  /\ cwd \in Cwds
  /\ rootDirOption \in RootDirOptions
  /\ root = PathResolve(cwd, rootDirOption)
  /\ pc = "idle"
  /\ call = NoCall
  /\ ret = NoRet
  /\ fsLog = {}
  /\ fs \in { CwdsOnly,
              Mkdir(CwdsOnly, root),
              WriteFileFs(Mkdir(CwdsOnly, root), root \o <<<<"f">>>>, <<"a">>),
              WriteFileFs(CwdsOnly, root, <<"a">>) }
  /\ fsBefore = fs
  /\ NoSchemaState
  /\ NoShellState
  /\ NoNetState
  /\ NoRaceState

NextLife ==
  \/ WorkspaceInit
  \/ \E o \in RmOutcomes : WorkspaceDestroy(o)
  \/ \E d \in Cwds : Chdir(d)
  \/ Return

SpecLife == InitLife /\ [][NextLife]_vars

Destroyed == pc = "done" /\ call.tool = "destroy"

\* C20: destroy never raises: whether the removal of Root succeeds, Root is
\* absent already or the removal fails, destroy resolves normally after one
\* removal attempt, however often and in whatever order with init it is called.
C20_DestroyNeverRaises ==
  Destroyed =>
    /\ ret.ok
    /\ Len(call.rm) = 1
    /\ call.rm[1].outcome = "ok" => \A q \in DOMAIN fs : ~IsRootOrBeneath(call.path, q)

\* C20 happens: the removal failed, Root is still there and destroy resolved
C20_Witness ==
  /\ Destroyed
  /\ call.rm[1].outcome = "fail"
  /\ call.path \in DOMAIN fs
  /\ ret.ok

\* in out, the strict form of src, every property that an object node of src
\* left out of required admits null; the nodes are reached through
\* properties, array items and union variants
RECURSIVE OptionalAdmitNull(_, _)
OptionalAdmitNull(src, out) ==
  /\ src.type = TypeStr("object") =>
       \A k \in DOMAIN src.properties :
         k \notin Range(SourceRequired(src)) => AdmitsNull(out.properties[k])
  /\ \A k \in DOMAIN src.properties : OptionalAdmitNull(src.properties[k], out.properties[k])
  /\ \A i \in DOMAIN src.items : OptionalAdmitNull(src.items[i], out.items[i])
  /\ \A i \in DOMAIN src.anyOf : OptionalAdmitNull(src.anyOf[i], out.anyOf[i])

\* C21: the strict transform corrects optionality at every depth: for every
\* object node reached from the root through properties, array items or union
\* variants, each property absent from the node's original required list
\* admits null in the output.
C21_NestedOptionalityCorrected ==
  StrictCall => OptionalAdmitNull(call.declared, StrictOut)

FsTools ==
  { "read_file", "write_file", "append_file", "delete_file", "list_files", "stat_file",
    "replace_in_file", "search_files" }
ContainmentRejected ==
  pc = "done" /\ call.tool \in FsTools /\ ~validatePath(root, call.path).ok

\* C22: a file or editor tool called with a path that validatePath rejects
\* fails with the violation and makes no node:fs call at all: nothing is read,
\* written, deleted or created (write_file and append_file create parent
\* directories only once containment has passed) and the filesystem is as it
\* was before the call.
C22_RejectedCallHasNoEffect ==
  ContainmentRejected =>
    /\ ~ret.ok
    /\ ret.error = "SecurityViolation"
    /\ fsLog = {}
    /\ fs = fsBefore

\* C22 happens: write_file was refused a path outside Root whose parent
\* directory does not exist, and it still does not
C22_Witness ==
  /\ ContainmentRejected
  /\ call.tool = "write_file"
  /\ ~IsRootOrBeneath(root, PathResolve(root, call.path))
  /\ PathDirname(PathResolve(root, call.path)) \notin DOMAIN fs

LifeCall == pc = "done" /\ call.tool \in {"init", "destroy"}

\* C23: Root is one fixed directory: what init creates and destroy removes is
\* the absolute path fixed at construction, the one getRoot returns and
\* containment and the shell use, for relative and absolute rootDir options
\* and whatever the working directory has become since construction.
C23_InitAndDestroyActOnRoot ==
  LifeCall =>
    /\ call.path = root
    /\ \A e \in fsLog : e.path = root

(***************************************************************************)
(* replace_in_file with replacement texts that hold "$" sequences          *)
(***************************************************************************)
MaxSubstLen == 2
SubstFileChars == {"a", "b", "LF"}
SubstNewChars == {"a", "$", "&", "1"}

InitSubst ==
  /\ root = EditRoot
  /\ pc = "idle"
  /\ call = NoCall
  /\ ret = NoRet
  /\ fsLog = {}
  /\ \E c \in StringsUpTo(SubstFileChars, MaxSubstLen + 1) :
       fs = WriteFileFs(Mkdir(RootOnlyFs, EditRoot), EditFile, c)
  /\ fsBefore = fs
  /\ NoSchemaState
  /\ NoShellState
  /\ NoNetState
  /\ NoLifeState
  /\ NoRaceState

NextSubst ==
  \E o \in StringsUpTo(SubstFileChars, MaxSubstLen),
     n \in StringsUpTo(SubstNewChars, MaxSubstLen) :
    replace_in_file(EditPath, o, n)

SpecSubst == InitSubst /\ [][NextSubst]_vars

\* the text of the file before and after the unique occurrence of the
\* normalized search text
MatchAt == indexOf(ReplaceAll(Before, CRLF, LF), ReplaceAll(call.args[1], CRLF, LF))
Prefix == SubSeq(ReplaceAll(Before, CRLF, LF), 1, MatchAt)
Suffix ==
  SubSeq(ReplaceAll(Before, CRLF, LF),
         MatchAt + Len(ReplaceAll(call.args[1], CRLF, LF)) + 1,
         Len(ReplaceAll(Before, CRLF, LF)))

\* C24: on a successful replace_in_file the written content, line endings
\* normalized, is prefix + new_content + suffix around the unique occurrence
\* of old_content; new_content is inserted verbatim, "$" sequences included.
C24_NewContentVerbatim ==
  (EditDone /\ ret.ok) =>
    ReplaceAll(After, CRLF, LF) = Prefix \o ReplaceAll(call.args[2], CRLF, LF) \o Suffix

(***************************************************************************)
(* Two handlers of one Workspace in flight at once.  A handler runs from   *)
(* its call to its first await in one step, and from each await to the     *)
(* next in one step; fs.writeFile is an open that truncates, a write at    *)
(* the descriptor's position and a close, each awaited.                    *)
(***************************************************************************)
MaxRaceLen == 2
Handlers == {"H1", "H2"}
RaceWorkspace == "W1"
RaceKey == "K"
RaceChars == {"a", "b"}
RaceContents == StringsUpTo(RaceChars, MaxRaceLen)
RaceFiles == {<<"a">>, <<"a", "b">>, <<"NUL">>}
RaceSearches == {<<"a">>, <<"b">>}
EnvTools == {"set_env_var"}
FileTools == {"write_file", "replace_in_file"}
NotCalled == [tool |-> "none", args |-> <<>>, at |-> "idle", buf |-> <<>>]
Settled == {"resolved", "rejected"}

\* write(fd, data) on a descriptor at position 0 of a file that holds content
PWriteWhole(content, data) == data

PWrite(content, data) == data \o SubSeq(content, Len(data) + 1, Len(content))

\* the handlers called so far all write the same kind of target
SameTarget(tools) == \A g \in Handlers : inflight[g].tool \in {"none"} \cup tools
Logged(h, op, data) ==
  raceLog' = Append(raceLog, [handler |-> h, op |-> op, data |-> data])
MovesTo(h, at, buf) == inflight' = [inflight EXCEPT ![h].at = at, ![h].buf = buf]

InitRace ==
  /\ root = EditRoot
  /\ pc = "idle"
  /\ call = NoCall
  /\ ret = NoRet
  /\ fsLog = {}
  /\ \E c \in RaceFiles :
       fs = WriteFileFs(Mkdir(RootOnlyFs, EditRoot), EditFile, c)
  /\ fsBefore = fs
  /\ NoSchemaState
  /\ hostEnv = [k \in {"PATH"} |-> "/bin"]
  /\ envRef = [w \in Workspaces |-> IF w = RaceWorkspace THEN AllocEnv(w) ELSE "none"]
  /\ heap = [o \in {AllocEnv(RaceWorkspace)} |-> NewEnvVars(hostEnv)]
  /\ setByTool = [w \in Workspaces |-> [k \in {} |-> ""]]
  /\ NoNetState
  /\ NoLifeState
  /\ inflight = [h \in Handlers |-> NotCalled]
  /\ raceLog = <<>>

\* set_env_var.execute: no await, the body runs within the call
RaceSetEnvVar(h, value) ==
  /\ inflight[h].at = "idle"
  /\ SameTarget(EnvTools)
  /\ heap' = [heap EXCEPT ![envRef[RaceWorkspace]] = SetProperty(@, RaceKey, value)]
  /\ setByTool' = [setByTool EXCEPT ![RaceWorkspace] = Spread(@, [k \in {RaceKey} |-> value])]
  /\ inflight' = [inflight EXCEPT ![h] =
       [tool |-> "set_env_var", args |-> <<RaceKey, value>>, at |-> "resolved", buf |-> <<>>]]
  /\ Logged(h, "set", value)
  /\ UNCHANGED <<root, pc, call, ret, fsVars, toolSchema, hostEnv, envRef, netVars, lifeVars>>

\* write_file.execute up to the await of ensureDirForFile
RaceWriteFile(h, content) ==
  /\ inflight[h].at = "idle"
  /\ SameTarget(FileTools)
  /\ validatePath(root, EditPath).ok
  /\ inflight' = [inflight EXCEPT ![h] =
       [tool |-> "write_file", args |-> <<EditPath, content>>, at |-> "mkdir", buf |-> content]]
  /\ UNCHANGED <<root, pc, call, ret, fsVars, toolSchema, shellVars, netVars, lifeVars, raceLog>>

\* fs.mkdir(dirname(safePath), {recursive: true}) settles; fs.writeFile is called
RaceMkdir(h) ==
  /\ inflight[h].at = "mkdir"
  /\ fs' = Mkdir(fs, PathDirname(validatePath(root, EditPath).path))
  /\ MovesTo(h, "open", inflight[h].buf)
  /\ UNCHANGED <<root, pc, call, ret, fsLog, fsBefore, toolSchema, shellVars, netVars, lifeVars, raceLog>>

\* replace_in_file.execute up to the await of isBinaryFile
RaceReplaceInFile(h, old_content, new_content) ==
  /\ inflight[h].at = "idle"
  /\ SameTarget(FileTools)
  /\ validatePath(root, EditPath).ok
  /\ inflight' = [inflight EXCEPT ![h] =
       [tool |-> "replace_in_file", args |-> <<EditPath, old_content, new_content>>,
        at |-> "binary", buf |-> <<>>]]
  /\ UNCHANGED <<root, pc, call, ret, fsVars, toolSchema, shellVars, netVars, lifeVars, raceLog>>

\* isBinaryFile settles on the file as it is now; fs.readFile is called
RaceIsBinaryFile(h) ==
  /\ inflight[h].at = "binary"
  /\ MovesTo(h, IF isBinaryFile(fs, EditFile) THEN "rejected" ELSE "read", <<>>)
  /\ UNCHANGED <<root, pc, call, ret, fsVars, toolSchema, shellVars, netVars, lifeVars, raceLog>>

\* fs.readFile settles with the content as it is now; lines 34-56 run on it
\* and fs.writeFile is called with the result
RaceReadFile(h) ==
  /\ inflight[h].at = "read"
  /\ LET r == replaceContent(fs[EditFile].content, inflight[h].args[2], inflight[h].args[3])
     IN  IF r.status = "ok" THEN MovesTo(h, "open", r.final)
         ELSE MovesTo(h, "rejected", <<>>)
  /\ UNCHANGED <<root, pc, call, ret, fsVars, toolSchema, shellVars, netVars, lifeVars, raceLog>>

\* fs.writeFile: open(path, 'w') creates or truncates the file
RaceOpen(h) ==
  /\ inflight[h].at = "open"
  /\ fs' = WriteFileFs(fs, EditFile, <<>>)
  /\ MovesTo(h, "write", inflight[h].buf)
  /\ Logged(h, "open", <<>>)
  /\ UNCHANGED <<root, pc, call, ret, fsLog, fsBefore, toolSchema, shellVars, netVars, lifeVars>>

\* fs.writeFile: the data is written at the start of the file as it is now
RaceWrite(h) ==
  /\ inflight[h].at = "write"
  /\ fs' = WriteFileFs(fs, EditFile, PWrite(fs[EditFile].content, inflight[h].buf))
  /\ MovesTo(h, "close", inflight[h].buf)
  /\ Logged(h, "write", inflight[h].buf)
  /\ UNCHANGED <<root, pc, call, ret, fsLog, fsBefore, toolSchema, shellVars, netVars, lifeVars>>

\* fs.writeFile: the descriptor is closed and the handler returns
RaceClose(h) ==
  /\ inflight[h].at = "close"
  /\ MovesTo(h, "resolved", inflight[h].buf)
  /\ UNCHANGED <<root, pc, call, ret, fsVars, toolSchema, shellVars, netVars, lifeVars, raceLog>>

NextRace ==
  \/ \E h \in Handlers, v \in EnvValues : RaceSetEnvVar(h, v)
  \/ \E h \in Handlers, c \in RaceContents : RaceWriteFile(h, c)
  \/ \E h \in Handlers : RaceMkdir(h)
  \/ \E h \in Handlers, o \in RaceSearches, n \in RaceContents : RaceReplaceInFile(h, o, n)
  \/ \E h \in Handlers : RaceIsBinaryFile(h)
  \/ \E h \in Handlers : RaceReadFile(h)
  \/ \E h \in Handlers : RaceOpen(h)
  \/ \E h \in Handlers : RaceWrite(h)
  \/ \E h \in Handlers : RaceClose(h)

SpecRace == InitRace /\ [][NextRace]_vars

\* the positions in raceLog of the writes of data, and of the writes of h
WriteIdx == {i \in 1..Len(raceLog) : raceLog[i].op \in {"set", "write"}}
WriteIdxOf(h) == {i \in WriteIdx : raceLog[i].handler = h}
LastIdx == CHOOSE i \in WriteIdx : \A j \in WriteIdx : j <= i
LastWriter == raceLog[LastIdx].handler
OtherWriter == CHOOSE g \in Handlers : g /= LastWriter
OtherIdx == CHOOSE i \in WriteIdxOf(OtherWriter) : TRUE
LastOpenIdx ==
  CHOOSE i \in 1..Len(raceLog) : raceLog[i].op = "open" /\ raceLog[i].handler = LastWriter
\* both handlers have settled and both wrote
BothWrote ==
  /\ \A h \in Handlers : inflight[h].at \in Settled
  /\ \A h \in Handlers : WriteIdxOf(h) /= {}
EnvRace == BothWrote /\ raceLog[LastIdx].op = "set"
FileRace == BothWrote /\ raceLog[LastIdx].op = "write"
FinalValue == heap[envRef[RaceWorkspace]][RaceKey]
FinalContent == fs[EditFile].content
\* the other handler's write executed between the last writer's open and write
WroteInBetween == LastOpenIdx < OtherIdx /\ OtherIdx < LastIdx

MaxLines == 30
\* n lines "a"
RECURSIVE Lines(_)
Lines(n) ==
  IF n = 0 THEN <<>>
  ELSE IF n = 1 THEN <<"a">>
  ELSE <<"a", "LF">> \o Lines(n - 1)

GitDir == <<".", "g", "i", "t">>
BuildDir == <<"b", "u", "i", "l", "d">>
SearchFilePaths ==
  { EditRoot \o <<<<"f">>>>,
    EditRoot \o <<<<"d">>, <<"g">>>>,
    EditRoot \o <<<<"d">>, <<"h">>>>,
    EditRoot \o <<GitDir, <<"c">>>>,
    EditRoot \o <<<<"d">>, BuildDir, <<"o">>>> }
Fillings == {"absent", "one", "many", "binary"}
Filling(k) ==
  CASE k = "one" -> Lines(1)
    [] k = "many" -> Lines(MaxLines)
    [] OTHER -> <<"NUL", "a">>
\* the tree under Root that holds the files t fills
RECURSIVE Tree(_, _, _)
Tree(f, t, paths) ==
  IF paths = <<>> THEN f
  ELSE IF t[Head(paths)] = "absent" THEN Tree(f, t, Tail(paths))
  ELSE Tree(WriteFileFs(Mkdir(f, PathDirname(Head(paths))), Head(paths),
                        Filling(t[Head(paths)])),
            t, Tail(paths))
SearchDirs ==
  { <<".">>, <<"d">>, GitDir, <<"d", "/">> \o BuildDir }

InitSearch ==
  /\ root = EditRoot
  /\ pc = "idle"
  /\ call = NoCall
  /\ ret = NoRet
  /\ fsLog = {}
  /\ \E t \in [SearchFilePaths -> Fillings] :
       fs = Tree(Mkdir(RootOnlyFs, EditRoot), t, SeqOfSet(SearchFilePaths))
  /\ fsBefore = fs
  /\ NoSchemaState
  /\ NoShellState
  /\ NoNetState
  /\ NoLifeState
  /\ NoRaceState

NextSearch ==
  \/ \E p \in SearchDirs, t \in SearchTerms : search_files(p, t)
  \/ Return

SpecSearch == InitSearch /\ [][NextSearch]_vars

SearchDone == pc = "done" /\ call.tool = "search_files" /\ ret.ok
Reported == {PathResolve(root, ret.value[i].file) : i \in 1..Len(ret.value)}
\* the directory names the claim lists
ClaimedIgnored ==
  { <<"n", "o", "d", "e", "_", "m", "o", "d", "u", "l", "e", "s">>, GitDir,
    <<"d", "i", "s", "t">>, <<"c", "o", "v", "e", "r", "a", "g", "e">>, BuildDir }
UnderIgnored(q) == \E k \in 1..(Len(q) - 1) : q[k] \in ClaimedIgnored
HasMatch(q) ==
  \E i \in 1..Len(SplitLines(fs[q].content)) :
    RegExpTest(call.args[1], SplitLines(fs[q].content)[i])
AtMostLimit == SearchDone => Len(ret.value) <= MAX_RESULTS
\* a text file with a matching line that the walk opened is among the results:
\* nothing is opened after the limit is reached
StopsAtLimit ==
  SearchDone =>
    \A q \in DOMAIN fs :
      (IsFile(fs, q) /\ FsOp("open", q) \in fsLog /\ ~isBinaryFile(fs, q) /\ HasMatch(q))
        => q \in Reported
NoneUnderIgnored == SearchDone => \A q \in Reported : ~UnderIgnored(q)
NoneBinary == SearchDone => \A q \in Reported : ~isBinaryFile(fs, q)

\* C26: search_files returns at most 50 results, stops walking once the limit
\* is reached, never reports a match from a file under a directory named
\* node_modules, .git, dist, coverage or build, and never one from a file
\* classified as binary.
C26_SearchSelfLimiting ==
  /\ AtMostLimit
  /\ StopsAtLimit
  /\ NoneUnderIgnored
  /\ NoneBinary

(***************************************************************************)
(* Workspaces and a host process that goes on changing its environment.    *)
(***************************************************************************)
HostKeys == {"PATH", "K"}

\* process.env[key] = value, by the host's own code; an object that is
\* process.env changes with it
SetHostEnv(key, value) ==
  /\ pc = "idle"
  /\ hostEnv' = SetProperty(hostEnv, key, value)
  /\ hostEnv' /= hostEnv
  /\ heap' = [o \in DOMAIN heap |->
                IF o = HostObject THEN SetProperty(heap[o], key, value) ELSE heap[o]]
  /\ UNCHANGED <<root, pc, call, ret, fsVars, toolSchema, envRef, setByTool, netVars, lifeVars, raceVars>>

NextHost ==
  \/ \E w \in Workspaces : NewWorkspace(w)
  \/ \E w \in Workspaces, k \in EnvKeys \cup HostKeys, v \in EnvValues : set_env_var(w, k, v)
  \/ \E k \in HostKeys, v \in EnvValues : SetHostEnv(k, v)
  \/ Return

SpecHost == InitShell /\ [][NextHost]_vars

Constructed(w) == envRef[w] /= "none"
HostChanged == pc = "idle" /\ pc' = "idle" /\ hostEnv' /= hostEnv
ToolSetsEnv == pc = "idle" /\ pc' = "done" /\ call'.tool = "set_env_var"

\* C27: the environment map of a Workspace is a copy made at construction: a
\* later change of the host process environment leaves the map of every
\* constructed Workspace as it was, and set_env_var leaves the host process
\* environment as it was.
C27_SeededByCopy ==
  [][ /\ HostChanged =>
           \A w \in Workspaces : Constructed(w) => heap'[envRef'[w]] = heap[envRef[w]]
      /\ ToolSetsEnv => hostEnv' = hostEnv ]_vars

\* C27 happens: the host changed PATH after W1 was constructed and W1 still
\* has the old one, and W1 was given a K that the host does not have
C27_Witness ==
  /\ Constructed("W1")
  /\ "PATH" \in DOMAIN hostEnv
  /\ "PATH" \notin DOMAIN setByTool["W1"]
  /\ heap[envRef["W1"]]["PATH"] /= hostEnv["PATH"]
  /\ "K" \in DOMAIN setByTool["W1"]
  /\ "K" \notin DOMAIN hostEnv
====
